---- MODULE Spec2Model ----
(***************************************************************************)
(* Model of the tensor-expression LLVM JIT glue of                         *)
(* aten/src/ATen/cuda/detail/CUDAHooks.cpp:                                *)
(*   - PytorchLLVMJIT::getUniqueFunctionName   (the unique-name allocator) *)
(*   - PytorchLLVMJITCache::getPytorchLLVMJITInstance / getCacheKey        *)
(*   - PytorchLLVMJITImpl construction: makeTargetMachineBuilder and       *)
(*     registerIntrinsics, plus addModule / findSymbol / hasSymbol         *)
(* Strings are TLA+ strings, concatenated with \o as std::string does.     *)
(***************************************************************************)
EXTENDS Integers, Sequences, FiniteSets, TLC

(***************************************************************************)
(* Bounds of the model.                                                    *)
(***************************************************************************)
\* total number of getUniqueFunctionName calls explored
MaxCalls == 4
\* total number of addModule calls explored
MaxModules == 2
\* number of cache entries after which no further new key is requested
MaxEngines == 2

\* the compilation threads
Threads == {"t1", "t2"}
NoThread == "none"

\* c10::nullopt
None == <<"nullopt">>
\* c10::optional<std::string> holding s
Some(s) == <<"some", s>>
has_value(o) == o # None
value(o) == o[2]

VARIABLES
  \* ---- per engine (PytorchLLVMJIT instance), indexed by engine id
  engines,             \* ids of the engines that have been constructed
  existing_functions,  \* [engine -> [name -> counter]]   existing_functions_
  name_mutex,          \* [engine -> thread or NoThread]  PytorchLLVMJIT::mutex_
  \* ---- getUniqueFunctionName calls in progress
  ufn_pc,              \* [thread -> position in getUniqueFunctionName]
  ufn,                 \* [thread -> locals: engine, name, it, unique_name]
  returned,            \* [engine -> sequence of completed calls]
  \* ---- per engine: PytorchLLVMJITImpl
  TM,                  \* [engine -> resolved target machine]
  JD,                  \* [engine -> main JITDylib: symbol name -> address]
  intrinsics,          \* [engine -> set of names]  intrinsics
  modules,             \* [engine -> sequence of the IR modules added]
  \* ---- PytorchLLVMJITCache (process-wide statics)
  jit_cache,           \* [cache key -> engine]  jit_cache_
  cache_mutex,         \* thread or NoThread     PytorchLLVMJITCache::mutex_
  targets_initialized, \* llvm::InitializeAllTargets() has run
  nnc_registry,        \* getNNCFunctionRegistry(): name -> address
  \* ---- getPytorchLLVMJITInstance calls in progress
  get_pc,              \* [thread -> position in getPytorchLLVMJITInstance]
  get,                 \* [thread -> locals: d, cacheKey, jit, result]
  got,                 \* [descriptor -> engine returned to a caller]
  outcome,             \* [thread -> how its last call ended]
  \* ---- CUDA devices and the getDeviceIndexWithPrimaryContext call
  device_count,        \* at::cuda::device_count()
  cudaGetDevice,       \* what cudaGetDevice(&device) gives: err and device
  primary_ctx,         \* [device -> what cuDevicePrimaryCtxGetState gives]
  gdi_pc,              \* position in getDeviceIndexWithPrimaryContext
  gdi,                 \* its locals: current_device_index, device_index
  hpc_calls,           \* indices passed to hasPrimaryContext, in order
  gdi_result,          \* the optional it returned
  \* ---- one CodeGen::CallArg object and the memory after it
  pointer_size,        \* sizeof(void*) of the build
  memory,              \* bytes from &data_ on: data_, then what follows it
  arg_pc,              \* position: idle, construct, constructed, read
  arg,                 \* the scalar passed to the constructor: Type, v
  deref                \* the bytes read through *NamePtr()

nameVars == <<existing_functions, name_mutex, ufn_pc, ufn, returned>>
engineVars == <<TM, JD, intrinsics, modules>>
cacheVars == <<jit_cache, cache_mutex, targets_initialized, get_pc, get, got, outcome>>
deviceVars == <<device_count, cudaGetDevice, primary_ctx, gdi_pc, gdi, hpc_calls, gdi_result>>
callArgVars == <<pointer_size, memory, arg_pc, arg, deref>>
vars == <<engines, nameVars, engineVars, cacheVars, nnc_registry, deviceVars, callArgVars>>

(***************************************************************************)
(* std::to_string on a non-negative int, digit by digit.                   *)
(***************************************************************************)
Digit(d) ==
  CASE d = 0 -> "0" [] d = 1 -> "1" [] d = 2 -> "2" [] d = 3 -> "3"
    [] d = 4 -> "4" [] d = 5 -> "5" [] d = 6 -> "6" [] d = 7 -> "7"
    [] d = 8 -> "8" [] d = 9 -> "9"

RECURSIVE to_string(_)
to_string(n) == IF n < 10 THEN Digit(n) ELSE to_string(n \div 10) \o Digit(n % 10)

(***************************************************************************)
(* PytorchLLVMJIT::getUniqueFunctionName, one action per statement.        *)
(* existing_functions_[e] is a map: a function whose DOMAIN is the set of  *)
(* keys present.  The iterator `it` is either end() or refers to the entry *)
(* of `name`; it->second is read from the map each time it is evaluated.   *)
(* existing_functions_ and mutex_ are members of each engine: the file      *)
(* defines the cache's statics jit_cache_ and mutex_ out of class (lines    *)
(* 721-723) and has no such definition for PytorchLLVMJIT.                  *)
(***************************************************************************)
\* the base names callers ask for
BaseNames == {"k", "k_2"}

ItEnd == "end"
ItEntry == "entry"

\* std::lock_guard<std::mutex> lock(mutex_) can be acquired by a thread
LockFreeNoMutex(e) == TRUE
LockFree(e) == name_mutex[e] = NoThread

\* existing_functions_.find(name)
find(e, name) == IF name \in DOMAIN existing_functions[e] THEN ItEntry ELSE ItEnd

\* it->second
it_second(e, name) == existing_functions[e][name]

\* existing_functions_[name] = v  (operator[] inserts the key when absent)
MapStoreKeepsOld(m, name, v) == IF name \in DOMAIN m THEN m ELSE [k \in DOMAIN m \cup {name} |-> IF k = name THEN v ELSE m[k]]
MapStore(m, name, v) == [k \in DOMAIN m \cup {name} |-> IF k = name THEN v ELSE m[k]]

\* name + "_" + std::to_string(it->second + 1), evaluated after the store
UniqueName(e, name) == name \o "_" \o to_string(it_second(e, name) + 1)

RECURSIVE TotalReturned(_)
TotalReturned(S) ==
  IF S = {} THEN 0
  ELSE LET e == CHOOSE x \in S : TRUE IN Len(returned[e]) + TotalReturned(S \ {e})

CallsMade == Cardinality({t \in Threads : ufn_pc[t] # "idle"}) + TotalReturned(engines)

\* line 709-710: entry and lock_guard construction
UfnLock(t, e, name) ==
  /\ ufn_pc[t] = "idle"
  /\ e \in engines
  /\ CallsMade < MaxCalls
  /\ LockFree(e)
  /\ name_mutex' = [name_mutex EXCEPT ![e] = t]
  /\ ufn' = [ufn EXCEPT ![t] = [engine |-> e, name |-> name, it |-> ItEnd, unique_name |-> ""]]
  /\ ufn_pc' = [ufn_pc EXCEPT ![t] = "find"]
  /\ UNCHANGED <<engines, existing_functions, returned, engineVars, cacheVars, nnc_registry, deviceVars, callArgVars>>

\* line 711: auto it = existing_functions_.find(name)
UfnFind(t) ==
  /\ ufn_pc[t] = "find"
  /\ ufn' = [ufn EXCEPT ![t].it = find(ufn[t].engine, ufn[t].name)]
  /\ ufn_pc' = [ufn_pc EXCEPT ![t] = "store"]
  /\ UNCHANGED <<engines, existing_functions, name_mutex, returned, engineVars, cacheVars, nnc_registry, deviceVars, callArgVars>>

\* lines 712-714: first use of the name
UfnStoreFirst(t) ==
  /\ ufn_pc[t] = "store"
  /\ ufn[t].it = ItEnd
  /\ existing_functions' = [existing_functions EXCEPT ![ufn[t].engine] =
                               MapStore(@, ufn[t].name, 0)]
  /\ ufn' = [ufn EXCEPT ![t].unique_name = ufn[t].name]
  /\ ufn_pc' = [ufn_pc EXCEPT ![t] = "return"]
  /\ UNCHANGED <<engines, name_mutex, returned, engineVars, cacheVars, nnc_registry, deviceVars, callArgVars>>

\* line 716: existing_functions_[name] = it->second + 1
UfnStoreNext(t) ==
  /\ ufn_pc[t] = "store"
  /\ ufn[t].it = ItEntry
  /\ existing_functions' = [existing_functions EXCEPT ![ufn[t].engine] =
                               MapStore(@, ufn[t].name, it_second(ufn[t].engine, ufn[t].name) + 1)]
  /\ ufn_pc' = [ufn_pc EXCEPT ![t] = "build"]
  /\ UNCHANGED <<engines, name_mutex, ufn, returned, engineVars, cacheVars, nnc_registry, deviceVars, callArgVars>>

\* line 717: std::string unique_name = name + "_" + std::to_string(it->second + 1)
UfnBuild(t) ==
  /\ ufn_pc[t] = "build"
  /\ ufn' = [ufn EXCEPT ![t].unique_name = UniqueName(ufn[t].engine, ufn[t].name)]
  /\ ufn_pc' = [ufn_pc EXCEPT ![t] = "return"]
  /\ UNCHANGED <<engines, existing_functions, name_mutex, returned, engineVars, cacheVars, nnc_registry, deviceVars, callArgVars>>

\* lines 714/718: return; the lock_guard releases mutex_
UfnReturn(t) ==
  /\ ufn_pc[t] = "return"
  /\ name_mutex' = [name_mutex EXCEPT ![ufn[t].engine] = NoThread]
  /\ returned' = [returned EXCEPT ![ufn[t].engine] =
                    Append(@, [thread |-> t, name |-> ufn[t].name, result |-> ufn[t].unique_name])]
  /\ ufn_pc' = [ufn_pc EXCEPT ![t] = "idle"]
  /\ UNCHANGED <<engines, existing_functions, ufn, engineVars, cacheVars, nnc_registry, deviceVars, callArgVars>>

UfnIdle == [engine |-> 0, name |-> "", it |-> ItEnd, unique_name |-> ""]


(***************************************************************************)
(* Target resolution: makeJTMBFromHost, makeJTMBFromTriple,                *)
(* makeTargetMachineBuilder.  A JITTargetMachineBuilder is a record of the *)
(* triple, the CPU name and the list of features; one built from a triple  *)
(* alone has an empty CPU name and no features.                            *)
(***************************************************************************)
\* llvm::sys::getProcessTriple(), getHostCPUName(), getHostCPUFeatures()
HostTriple == "x86_64"
HostCPUName == "skylake"
HostFeatures == <<"+avx2", "+fma">>

\* the targets llvm::InitializeAllTargets() registers
AllTargets == {"x86_64", "arm"}

\* a target descriptor: three optional strings
Descriptor(triple, cpu, attrs) == [triple |-> triple, cpu |-> cpu, attrs |-> attrs]

\* llvm::orc::JITTargetMachineBuilder(llvm::Triple(t))
JTMBOf(t) == [triple |-> t, cpu |-> "", features |-> <<>>]

\* llvm::SubtargetFeatures::Split: the comma-separated pieces, empty pieces dropped
RECURSIVE SplitFrom(_, _, _)
SplitFrom(str, i, cur) ==
  IF i > Len(str) THEN (IF cur = "" THEN <<>> ELSE <<cur>>)
  ELSE IF SubSeq(str, i, i) = ","
       THEN (IF cur = "" THEN <<>> ELSE <<cur>>) \o SplitFrom(str, i + 1, "")
       ELSE SplitFrom(str, i + 1, cur \o SubSeq(str, i, i))

Split(str) == SplitFrom(str, 1, "")

\* JTMB.setCPU, JTMB.addFeatures
setCPU(jtmb, cpu) == [jtmb EXCEPT !.cpu = cpu]
addFeatures(jtmb, fs) == [jtmb EXCEPT !.features = @ \o fs]

\* cpu.value_or(dflt)
value_or(o, dflt) == IF has_value(o) THEN value(o) ELSE dflt

\* lines 445-459
makeJTMBFromHost(cpu, attrs) ==
  LET j1 == setCPU(JTMBOf(HostTriple), value_or(cpu, HostCPUName))
  IN IF has_value(attrs) THEN addFeatures(j1, Split(value(attrs)))
                         ELSE addFeatures(j1, HostFeatures)

\* a variant that falls back to the host defaults also under an explicit triple
makeJTMBFromTripleHostDefaults(triple, cpu, attrs) ==
  LET j1 == setCPU(JTMBOf(triple), value_or(cpu, HostCPUName))
  IN IF has_value(attrs) THEN addFeatures(j1, Split(value(attrs)))
                         ELSE addFeatures(j1, HostFeatures)

\* lines 462-476
makeJTMBFromTriple(triple, cpu, attrs) ==
  LET j0 == JTMBOf(triple)
      j1 == IF has_value(cpu) THEN setCPU(j0, value(cpu)) ELSE j0
  IN IF has_value(attrs) THEN addFeatures(j1, Split(value(attrs))) ELSE j1

\* lines 478-487 (the optimisation level and FP fusion option do not depend on
\* the descriptor and are left out of the record)
makeTargetMachineBuilder(triple, cpu, attrs) ==
  IF has_value(triple) THEN makeJTMBFromTriple(value(triple), cpu, attrs)
                       ELSE makeJTMBFromHost(cpu, attrs)

\* JTMB.createTargetMachine(): fails when no registered target matches the triple
Failure == [error |-> "failed"]
createTargetMachine(jtmb) ==
  IF targets_initialized /\ jtmb.triple \in AllTargets THEN jtmb ELSE Failure

(***************************************************************************)
(* Symbol registration: registerIntrinsics.  A JITDylib is a function from *)
(* the names defined in it to their addresses.                             *)
(***************************************************************************)
\* getIntrinsicSymbols(): the compiled-in list of {symbol, address}
IntrinsicSymbols ==
  << [symbol |-> "log10f", address |-> 101], [symbol |-> "expf", address |-> 102] >>

IntrinsicNames == {IntrinsicSymbols[i].symbol : i \in 1..Len(IntrinsicSymbols)}

\* the address of DispatchParallel
DispatchParallelAddr == 900

\* the registries backend authors may have populated at static-init time
NNCRegistries ==
  { [n \in {"nnc_aten_conv2d"} |-> 201],
    [n \in {"nnc_aten_conv2d", "expf"} |-> IF n = "expf" THEN 202 ELSE 201],
    [n \in {"nnc_aten_conv2d", "DispatchParallel"} |-> IF n = "DispatchParallel" THEN 203 ELSE 201] }

\* the symbols the hosting process has loaded (found by the generator)
ProcessSymbols == [n \in {"malloc"} |-> 301]

EmptyMap == [n \in {} |-> 0]

\* SymbolMap::insert keeps the first entry of a name
RECURSIVE SymbolMapOf(_, _)
SymbolMapOf(syms, i) ==
  IF i > Len(syms) THEN EmptyMap
  ELSE LET rest == SymbolMapOf(syms, i + 1)
       IN [n \in DOMAIN rest \cup {syms[i].symbol} |->
             IF n = syms[i].symbol THEN syms[i].address ELSE rest[n]]

\* a definition in which the later address replaces the earlier one
defineLastWins(jd, syms) ==
  [n \in DOMAIN jd \cup DOMAIN syms |-> IF n \in DOMAIN syms THEN syms[n] ELSE jd[n]]

\* JD.define(absoluteSymbols(syms)): a duplicate-definition error when one of
\* the names is already defined in the JITDylib
define(jd, syms) ==
  IF DOMAIN jd \cap DOMAIN syms # {} THEN Failure
  ELSE [n \in DOMAIN jd \cup DOMAIN syms |-> IF n \in DOMAIN syms THEN syms[n] ELSE jd[n]]

\* lines 500-505: the static list goes into JD and into `intrinsics`
RegisterStaticJD(jd) == define(jd, SymbolMapOf(IntrinsicSymbols, 1))

\* a variant that also records the backend registry names as intrinsics
RegisterStaticNamesWithRegistry(names) == names \cup IntrinsicNames \cup DOMAIN nnc_registry
RegisterStaticNames(names) == names \cup IntrinsicNames

\* a variant that leaves the backend registry out
RegisterNNCSkipped(jd) == jd

\* lines 507-510: one define per registry entry
RegisterNNC(jd) == define(jd, nnc_registry)

\* lines 511-512
RegisterDispatchParallel(jd) == define(jd, [n \in {"DispatchParallel"} |-> DispatchParallelAddr])

(***************************************************************************)
(* PytorchLLVMJITCache::getCacheKey and getPytorchLLVMJITInstance, with    *)
(* the PytorchLLVMJITImpl constructor it runs on a miss.  One action per   *)
(* statement; the engine under construction is the local `jit`.            *)
(***************************************************************************)
\* a key that leaves the attrs field out
getCacheKeyNoAttrs(triple, cpu, attrs) ==
  "triple:" \o (IF has_value(triple) THEN value(triple) ELSE "") \o
  "cpu:" \o (IF has_value(cpu) THEN value(cpu) ELSE "")

\* a key that marks an absent field
getCacheKeyMarksAbsent(triple, cpu, attrs) ==
  "triple:" \o (IF has_value(triple) THEN value(triple) ELSE "?") \o
  "cpu:" \o (IF has_value(cpu) THEN value(cpu) ELSE "?") \o
  "attrs:" \o (IF has_value(attrs) THEN value(attrs) ELSE "?")

\* lines 744-751
getCacheKey(triple, cpu, attrs) ==
  "triple:" \o (IF has_value(triple) THEN value(triple) ELSE "") \o
  "cpu:" \o (IF has_value(cpu) THEN value(cpu) ELSE "") \o
  "attrs:" \o (IF has_value(attrs) THEN value(attrs) ELSE "")

\* std::lock_guard<std::mutex> lock(mutex_) of the cache can be acquired
CacheLockFreeNoMutex == TRUE
CacheLockFree == cache_mutex = NoThread

\* jit_cache_.find(cacheKey) != jit_cache_.end()
CacheHit(key) == key \in DOMAIN jit_cache

\* std::make_unique: an object distinct from every live engine
LiveObjects == engines \cup {get[t].jit.id : t \in Threads}
NewEngineId ==
  CHOOSE i \in 1..(Cardinality(LiveObjects) + 1) :
    i \notin LiveObjects /\ \A j \in 1..(i - 1) : j \in LiveObjects

NoJit == [id |-> 0, TM |-> Failure, LLJ |-> FALSE, generator |-> FALSE,
          JD |-> EmptyMap, intrinsics |-> {}]
NoDescriptor == Descriptor(None, None, None)
GetIdle == [d |-> NoDescriptor, cacheKey |-> "", jit |-> NoJit, result |-> 0, hit |-> FALSE]

Drop(f, S) == [x \in DOMAIN f \ S |-> f[x]]

\* line 729: std::string cacheKey = getCacheKey(triple, cpu, attrs)
GetCall(t, d) ==
  /\ get_pc[t] = "idle"
  /\ ufn_pc[t] = "idle"
  /\ \/ Cardinality(DOMAIN jit_cache) < MaxEngines
     \/ getCacheKey(d.triple, d.cpu, d.attrs) \in DOMAIN jit_cache
  /\ get' = [get EXCEPT ![t] = [GetIdle EXCEPT !.d = d,
                                  !.cacheKey = getCacheKey(d.triple, d.cpu, d.attrs)]]
  /\ get_pc' = [get_pc EXCEPT ![t] = "lock"]
  /\ outcome' = [outcome EXCEPT ![t] = "none"]
  /\ UNCHANGED <<engines, nameVars, engineVars, jit_cache, cache_mutex,
                 targets_initialized, got, nnc_registry, deviceVars, callArgVars>>

\* line 730: std::lock_guard<std::mutex> lock(mutex_)
GetLock(t) ==
  /\ get_pc[t] = "lock"
  /\ CacheLockFree
  /\ cache_mutex' = t
  /\ get_pc' = [get_pc EXCEPT ![t] = "find"]
  /\ UNCHANGED <<engines, nameVars, engineVars, jit_cache, targets_initialized,
                 get, got, outcome, nnc_registry, deviceVars, callArgVars>>

\* lines 731-734: hit, return it->second.get()
GetFindHit(t) ==
  /\ get_pc[t] = "find"
  /\ CacheHit(get[t].cacheKey)
  /\ get' = [get EXCEPT ![t].result = jit_cache[get[t].cacheKey], ![t].hit = TRUE]
  /\ get_pc' = [get_pc EXCEPT ![t] = "return"]
  /\ UNCHANGED <<engines, nameVars, engineVars, jit_cache, cache_mutex,
                 targets_initialized, got, outcome, nnc_registry, deviceVars, callArgVars>>

\* lines 731-732: miss
GetFindMiss(t) ==
  /\ get_pc[t] = "find"
  /\ ~CacheHit(get[t].cacheKey)
  /\ get_pc' = [get_pc EXCEPT ![t] = "init_targets"]
  /\ UNCHANGED <<engines, nameVars, engineVars, jit_cache, cache_mutex,
                 targets_initialized, get, got, outcome, nnc_registry, deviceVars, callArgVars>>

\* lines 735-737: llvm::InitializeAllTargets() and friends
GetInitTargets(t) ==
  /\ get_pc[t] = "init_targets"
  /\ targets_initialized' = TRUE
  /\ get_pc' = [get_pc EXCEPT ![t] = "ctor_tm"]
  /\ UNCHANGED <<engines, nameVars, engineVars, jit_cache, cache_mutex,
                 get, got, outcome, nnc_registry, deviceVars, callArgVars>>

\* lines 738, 532-533: TM(assertSuccess(makeTargetMachineBuilder(...).createTargetMachine()))
CtorTargetMachine(t) ==
  /\ get_pc[t] = "ctor_tm"
  /\ LET d == get[t].d
         tm == createTargetMachine(makeTargetMachineBuilder(d.triple, d.cpu, d.attrs))
     IN /\ get' = [get EXCEPT ![t].jit = [NoJit EXCEPT !.id = NewEngineId, !.TM = tm]]
        /\ get_pc' = [get_pc EXCEPT ![t] = IF tm = Failure THEN "throw" ELSE "ctor_llj"]
  /\ UNCHANGED <<engines, nameVars, engineVars, jit_cache, cache_mutex,
                 targets_initialized, got, outcome, nnc_registry, deviceVars, callArgVars>>

\* lines 534-537: LLJ(assertSuccess(LLJITBuilder().setJITTargetMachineBuilder(...).create()))
\* the execution context with its own, empty, main JITDylib
CtorLLJIT(t) ==
  /\ get_pc[t] = "ctor_llj"
  /\ get' = [get EXCEPT ![t].jit.LLJ = TRUE, ![t].jit.JD = EmptyMap]
  /\ get_pc' = [get_pc EXCEPT ![t] = "ctor_gen"]
  /\ UNCHANGED <<engines, nameVars, engineVars, jit_cache, cache_mutex,
                 targets_initialized, got, outcome, nnc_registry, deviceVars, callArgVars>>

\* lines 538-546: JD.addGenerator(DynamicLibrarySearchGenerator::GetForCurrentProcess)
CtorGenerator(t) ==
  /\ get_pc[t] = "ctor_gen"
  /\ get' = [get EXCEPT ![t].jit.generator = TRUE]
  /\ get_pc' = [get_pc EXCEPT ![t] = "reg_static"]
  /\ UNCHANGED <<engines, nameVars, engineVars, jit_cache, cache_mutex,
                 targets_initialized, got, outcome, nnc_registry, deviceVars, callArgVars>>

\* lines 552, 500-505: the static intrinsic list
RegStatic(t) ==
  /\ get_pc[t] = "reg_static"
  /\ LET jd == RegisterStaticJD(get[t].jit.JD)
     IN IF jd = Failure
        THEN /\ get_pc' = [get_pc EXCEPT ![t] = "throw"]
             /\ get' = [get EXCEPT ![t].jit.intrinsics = RegisterStaticNames(@)]
        ELSE /\ get_pc' = [get_pc EXCEPT ![t] = "reg_nnc"]
             /\ get' = [get EXCEPT ![t].jit.JD = jd,
                                   ![t].jit.intrinsics = RegisterStaticNames(@)]
  /\ UNCHANGED <<engines, nameVars, engineVars, jit_cache, cache_mutex,
                 targets_initialized, got, outcome, nnc_registry, deviceVars, callArgVars>>

\* lines 507-510: the backend external-function registry
RegNNC(t) ==
  /\ get_pc[t] = "reg_nnc"
  /\ LET jd == RegisterNNC(get[t].jit.JD)
     IN IF jd = Failure
        THEN /\ get_pc' = [get_pc EXCEPT ![t] = "throw"]
             /\ UNCHANGED get
        ELSE /\ get_pc' = [get_pc EXCEPT ![t] = "reg_dp"]
             /\ get' = [get EXCEPT ![t].jit.JD = jd]
  /\ UNCHANGED <<engines, nameVars, engineVars, jit_cache, cache_mutex,
                 targets_initialized, got, outcome, nnc_registry, deviceVars, callArgVars>>

\* lines 511-512: DispatchParallel; the constructor returns
RegDispatchParallel(t) ==
  /\ get_pc[t] = "reg_dp"
  /\ LET jd == RegisterDispatchParallel(get[t].jit.JD)
     IN IF jd = Failure
        THEN /\ get_pc' = [get_pc EXCEPT ![t] = "throw"]
             /\ UNCHANGED get
        ELSE /\ get_pc' = [get_pc EXCEPT ![t] = "insert"]
             /\ get' = [get EXCEPT ![t].jit.JD = jd]
  /\ UNCHANGED <<engines, nameVars, engineVars, jit_cache, cache_mutex,
                 targets_initialized, got, outcome, nnc_registry, deviceVars, callArgVars>>

\* lines 739-740: jit_cache_[cacheKey] = std::move(jit); an engine the
\* assignment replaces is destroyed
GetInsert(t) ==
  /\ get_pc[t] = "insert"
  /\ LET id == get[t].jit.id
         key == get[t].cacheKey
         old == IF key \in DOMAIN jit_cache THEN {jit_cache[key]} \ {id} ELSE {}
     IN /\ jit_cache' = MapStore(jit_cache, key, id)
        /\ engines' = (engines \ old) \cup {id}
        /\ TM' = MapStore(Drop(TM, old), id, get[t].jit.TM)
        /\ JD' = MapStore(Drop(JD, old), id, get[t].jit.JD)
        /\ intrinsics' = MapStore(Drop(intrinsics, old), id, get[t].jit.intrinsics)
        /\ modules' = MapStore(Drop(modules, old), id, <<>>)
        /\ existing_functions' = MapStore(Drop(existing_functions, old), id, EmptyMap)
        /\ name_mutex' = MapStore(Drop(name_mutex, old), id, NoThread)
        /\ returned' = MapStore(Drop(returned, old), id, <<>>)
        /\ get' = [get EXCEPT ![t].result = id]
  /\ get_pc' = [get_pc EXCEPT ![t] = "return"]
  /\ UNCHANGED <<ufn_pc, ufn, cache_mutex, targets_initialized, got, outcome, nnc_registry, deviceVars, callArgVars>>

\* lines 733/741: return; the lock_guard releases the cache mutex
GetReturn(t) ==
  /\ get_pc[t] = "return"
  /\ cache_mutex' = NoThread
  /\ got' = MapStore(got, get[t].d, get[t].result)
  /\ outcome' = [outcome EXCEPT ![t] = "returned"]
  /\ get_pc' = [get_pc EXCEPT ![t] = "idle"]
  /\ get' = [get EXCEPT ![t] = GetIdle]
  /\ UNCHANGED <<engines, nameVars, engineVars, jit_cache, targets_initialized, nnc_registry, deviceVars, callArgVars>>

\* assertSuccess failed: the exception leaves getPytorchLLVMJITInstance, the
\* engine under construction is destroyed and the lock_guard releases the mutex
GetThrow(t) ==
  /\ get_pc[t] = "throw"
  /\ cache_mutex' = NoThread
  /\ outcome' = [outcome EXCEPT ![t] = "threw"]
  /\ get_pc' = [get_pc EXCEPT ![t] = "idle"]
  /\ get' = [get EXCEPT ![t] = GetIdle]
  /\ UNCHANGED <<engines, nameVars, engineVars, jit_cache, targets_initialized, got, nnc_registry, deviceVars, callArgVars>>

(***************************************************************************)
(* Engine operations: addModule, findSymbol, hasSymbol.  An IR module is   *)
(* the function from the names it defines to the addresses its code gets.  *)
(* Symbol mangling adds the data layout's global prefix on both the        *)
(* defining and the looking-up side and is left out.                       *)
(***************************************************************************)
\* the IR modules callers submit
IRModules ==
  { [n \in {"kernel"} |-> 1001],
    [n \in {"kernel_2"} |-> 1002],
    [n \in {"expf"} |-> 1003] }

RECURSIVE TotalModules(_)
TotalModules(S) ==
  IF S = {} THEN 0
  ELSE LET e == CHOOSE x \in S : TRUE IN Len(modules[e]) + TotalModules(S \ {e})

\* lines 555-559: LLJ->addIRModule defines the module's symbols in the main
\* JITDylib; assertSuccess throws on a duplicate definition
addModule(t, e, m) ==
  /\ get_pc[t] = "idle"
  /\ ufn_pc[t] = "idle"
  /\ e \in engines
  /\ TotalModules(engines) < MaxModules
  /\ LET jd == define(JD[e], m)
     IN IF jd = Failure
        THEN /\ outcome' = [outcome EXCEPT ![t] = "threw"]
             /\ UNCHANGED <<JD, modules>>
        ELSE /\ outcome' = [outcome EXCEPT ![t] = "added"]
             /\ JD' = [JD EXCEPT ![e] = jd]
             /\ modules' = [modules EXCEPT ![e] = Append(@, m)]
  /\ UNCHANGED <<engines, nameVars, TM, intrinsics, jit_cache, cache_mutex,
                 targets_initialized, get_pc, get, got, nnc_registry, deviceVars, callArgVars>>

\* lines 561-563: LLJ->lookup(Name): the JITDylib, then the process symbols
findSymbol(e, Name) ==
  IF Name \in DOMAIN JD[e] THEN [found |-> TRUE, address |-> JD[e][Name]]
  ELSE IF Name \in DOMAIN ProcessSymbols THEN [found |-> TRUE, address |-> ProcessSymbols[Name]]
  ELSE [found |-> FALSE, address |-> 0]

\* lines 565-567
hasSymbol(e, Name) == Name \in intrinsics[e]

(***************************************************************************)
(* CUDA devices: current_device, hasPrimaryContext and                     *)
(* getDeviceIndexWithPrimaryContext.                                       *)
(***************************************************************************)
\* the largest at::cuda::device_count() explored
MaxDevices == 3

\* the valid device indices
Devices == 0 .. device_count - 1

\* cudaGetDevice(&device): success writes a device of the process; an error
\* leaves the int unwritten (it is never read then)
CudaGetDeviceOutcomes(count) ==
  [err : {"cudaSuccess"}, device : 0 .. count - 1]
    \cup [err : {"cudaErrorNoDevice"}, device : {0}]

\* current_device(): the device, or -1 when cudaGetDevice failed
current_device ==
  IF cudaGetDevice.err = "cudaSuccess" THEN cudaGetDevice.device ELSE -1

\* what cuDevicePrimaryCtxGetState can give for one device: ctx_is_active 1,
\* ctx_is_active 0, or a driver error
CtxStates == {"active", "inactive", "driver_error"}

\* hasPrimaryContext(device_index): the range check, the driver check, then
\* ctx_is_active == 1
hasPrimaryContext(device_index) ==
  IF ~(device_index >= 0 /\ device_index < device_count) THEN "TORCH_CHECK"
  ELSE IF primary_ctx[device_index] = "driver_error" THEN "AT_CUDA_DRIVER_CHECK"
  ELSE IF primary_ctx[device_index] = "active" THEN "true"
  ELSE "false"

\* a loop that has no `continue` for the current device
SkipsNothing(device_index, current_device_index) == FALSE

\* if (device_index == current_device_index) continue;
SkipsCurrent(device_index, current_device_index) ==
  device_index = current_device_index

\* the locals before the call
GdiLocals == [current_device_index |-> -1, device_index |-> 0]

\* int64_t current_device_index = current_device(); if (... >= 0)
GdiCurrentDevice ==
  /\ gdi_pc = "current_device"
  /\ gdi' = [gdi EXCEPT !.current_device_index = current_device]
  /\ gdi_pc' = IF current_device >= 0 THEN "check_current" ELSE "loop"
  /\ UNCHANGED <<device_count, cudaGetDevice, primary_ctx, hpc_calls, gdi_result>>
  /\ UNCHANGED <<engines, nameVars, engineVars, cacheVars, nnc_registry, callArgVars>>

\* if (hasPrimaryContext(current_device_index)) return current_device_index;
GdiCheckCurrent ==
  /\ gdi_pc = "check_current"
  /\ hpc_calls' = Append(hpc_calls, gdi.current_device_index)
  /\ LET r == hasPrimaryContext(gdi.current_device_index) IN
       /\ gdi_pc' = IF r = "true" THEN "done"
                    ELSE IF r = "false" THEN "loop" ELSE "threw"
       /\ gdi_result' = IF r = "true" THEN Some(gdi.current_device_index)
                        ELSE gdi_result
  /\ UNCHANGED <<device_count, cudaGetDevice, primary_ctx, gdi>>
  /\ UNCHANGED <<engines, nameVars, engineVars, cacheVars, nnc_registry, callArgVars>>

\* the loop condition fails: return c10::nullopt
GdiLoopEnd ==
  /\ gdi_pc = "loop"
  /\ ~(gdi.device_index < device_count)
  /\ gdi_result' = None
  /\ gdi_pc' = "done"
  /\ UNCHANGED <<device_count, cudaGetDevice, primary_ctx, gdi, hpc_calls>>
  /\ UNCHANGED <<engines, nameVars, engineVars, cacheVars, nnc_registry, callArgVars>>

\* one iteration that takes the `continue`
GdiLoopSkip ==
  /\ gdi_pc = "loop"
  /\ gdi.device_index < device_count
  /\ SkipsCurrent(gdi.device_index, gdi.current_device_index)
  /\ gdi' = [gdi EXCEPT !.device_index = @ + 1]
  /\ UNCHANGED <<device_count, cudaGetDevice, primary_ctx, gdi_pc, hpc_calls, gdi_result>>
  /\ UNCHANGED <<engines, nameVars, engineVars, cacheVars, nnc_registry, callArgVars>>

\* one iteration that asks: if (hasPrimaryContext(device_index)) return it
GdiLoopQuery ==
  /\ gdi_pc = "loop"
  /\ gdi.device_index < device_count
  /\ ~SkipsCurrent(gdi.device_index, gdi.current_device_index)
  /\ hpc_calls' = Append(hpc_calls, gdi.device_index)
  /\ LET r == hasPrimaryContext(gdi.device_index) IN
       /\ gdi_pc' = IF r = "true" THEN "done"
                    ELSE IF r = "false" THEN "loop" ELSE "threw"
       /\ gdi_result' = IF r = "true" THEN Some(gdi.device_index) ELSE gdi_result
       /\ gdi' = IF r = "false" THEN [gdi EXCEPT !.device_index = @ + 1] ELSE gdi
  /\ UNCHANGED <<device_count, cudaGetDevice, primary_ctx>>
  /\ UNCHANGED <<engines, nameVars, engineVars, cacheVars, nnc_registry, callArgVars>>

\* no getDeviceIndexWithPrimaryContext call is made
DeviceIdle ==
  /\ device_count = 0
  /\ cudaGetDevice = [err |-> "cudaErrorNoDevice", device |-> 0]
  /\ primary_ctx = <<>>
  /\ gdi_pc = "idle"
  /\ gdi = GdiLocals
  /\ hpc_calls = <<>>
  /\ gdi_result = None

(***************************************************************************)
(* CodeGen::CallArg: a scalar stored in, and read back from, the bytes of  *)
(* the void* member data_.                                                 *)
(***************************************************************************)
\* AT_FORALL_SCALAR_TYPES_AND3(Bool, Half, BFloat16, _): the scalar kinds and
\* the size in bytes of each
sizeof ==
  [Byte |-> 1, Char |-> 1, Short |-> 2, Int |-> 4, Long |-> 8, Float |-> 4,
   Double |-> 8, Bool |-> 1, Half |-> 2, BFloat16 |-> 2]

ScalarTypes == DOMAIN sizeof

\* sizeof(void*): 32-bit and 64-bit builds
PointerSizes == {4, 8}

\* the bytes modelled from &data_ on: enough for the widest write
MemoryBytes == 1 .. 8

\* object representations of the values passed: all bits clear, all bits set,
\* only the lowest bit set, only the highest bit set (bool: false and true)
Values(Type) ==
  IF Type = "Bool" THEN {<<0>>, <<1>>}
  ELSE LET n == sizeof[Type] IN
    { [i \in 1 .. n |-> 0],
      [i \in 1 .. n |-> 255],
      [i \in 1 .. n |-> IF i = 1 THEN 1 ELSE 0],
      [i \in 1 .. n |-> IF i = n THEN 128 ELSE 0] }

\* what the bytes hold before the constructor runs: data_ is not initialised
\* by the scalar constructors, the bytes after it belong to something else
GarbageBytes == {0, 170}

\* memcpy(&data_, &v, n): the first n bytes from &data_ on become v's
memcpy(mem, v, n) == [i \in DOMAIN mem |-> IF i <= n THEN v[i] ELSE mem[i]]

\* the outcomes of the constructor's memcpy.  A copy that fits data_ has one.
\* A copy of more than sizeof(void*) bytes writes past the member, which is
\* undefined: the bytes after data_ end up holding v's bytes, their old
\* content, or what their owner stores there next
CtorOutcomes(mem, v, n) ==
  IF n <= pointer_size THEN {memcpy(mem, v, n)}
  ELSE {memcpy(mem, v, n), memcpy(mem, v, pointer_size)}
         \cup { [i \in DOMAIN mem |-> IF i <= pointer_size THEN v[i] ELSE g] :
                  g \in GarbageBytes }

NoArg == [Type |-> "none", v |-> <<>>]

\* CallArg(Type v) { memcpy(&data_, &v, sizeof(Type)); }
CallArg(Type, v) ==
  /\ arg_pc = "idle"
  /\ arg' = [Type |-> Type, v |-> v]
  /\ memory' \in CtorOutcomes(memory, v, sizeof[Type])
  /\ arg_pc' = "constructed"
  /\ UNCHANGED <<pointer_size, deref>>
  /\ UNCHANGED <<engines, nameVars, engineVars, cacheVars, nnc_registry, deviceVars>>

\* *NamePtr(): sizeof(Type) bytes read through (Type*)&data_
NamePtr ==
  /\ arg_pc = "constructed"
  /\ deref' = SubSeq(memory, 1, sizeof[arg.Type])
  /\ arg_pc' = "read"
  /\ UNCHANGED <<pointer_size, memory, arg>>
  /\ UNCHANGED <<engines, nameVars, engineVars, cacheVars, nnc_registry, deviceVars>>

\* no CallArg object exists
CallArgIdle ==
  /\ pointer_size = 8
  /\ memory = [i \in MemoryBytes |-> 0]
  /\ arg_pc = "idle"
  /\ arg = NoArg
  /\ deref = <<>>

(***************************************************************************)
(* Specifications.                                                         *)
(***************************************************************************)
\* the registry with one backend function and no name of the static list
PlainRegistry == [n \in {"nnc_aten_conv2d"} |-> 201]

\* the process before the first getPytorchLLVMJITInstance call
InitProcess ==
  /\ engines = {}
  /\ existing_functions = EmptyMap
  /\ name_mutex = EmptyMap
  /\ ufn_pc = [t \in Threads |-> "idle"]
  /\ ufn = [t \in Threads |-> UfnIdle]
  /\ returned = EmptyMap
  /\ TM = EmptyMap
  /\ JD = EmptyMap
  /\ intrinsics = EmptyMap
  /\ modules = EmptyMap
  /\ jit_cache = EmptyMap
  /\ cache_mutex = NoThread
  /\ targets_initialized = FALSE
  /\ get_pc = [t \in Threads |-> "idle"]
  /\ get = [t \in Threads |-> GetIdle]
  /\ got = EmptyMap
  /\ outcome = [t \in Threads |-> "none"]

\* ---- the instance cache under concurrent calls
\* descriptors the callers pass: the all-default one, one that differs from it
\* by an empty cpu string, two whose fields concatenate to the same text (the
\* second names no registered target), and one that differs by its attrs
CacheDescriptors ==
  { Descriptor(None, None, None),
    Descriptor(None, Some(""), None),
    Descriptor(Some("arm"), Some("cpu:m1"), None),
    Descriptor(Some("armcpu:"), Some("m1"), None),
    Descriptor(None, None, Some("+avx")) }

InitCache ==
  InitProcess /\ nnc_registry = PlainRegistry /\ DeviceIdle /\ CallArgIdle

GetSteps(t) ==
  \/ GetLock(t)
  \/ GetFindHit(t)
  \/ GetFindMiss(t)
  \/ GetInitTargets(t)
  \/ CtorTargetMachine(t)
  \/ CtorLLJIT(t)
  \/ CtorGenerator(t)
  \/ RegStatic(t)
  \/ RegNNC(t)
  \/ RegDispatchParallel(t)
  \/ GetInsert(t)
  \/ GetReturn(t)
  \/ GetThrow(t)

NextCache ==
  \/ \E t \in Threads, d \in CacheDescriptors : GetCall(t, d)
  \/ \E t \in Threads : GetSteps(t)

SpecCache == InitCache /\ [][NextCache]_vars

\* ---- one thread building engines and adding modules, any registry
EngineDescriptors ==
  { Descriptor(tr, cpu, at) :
      tr \in {None, Some("arm")}, cpu \in {None, Some("m1")},
      at \in {None, Some("+neon,,-sve")} }

InitEngine ==
  InitProcess /\ nnc_registry \in NNCRegistries /\ DeviceIdle /\ CallArgIdle

NextEngine ==
  \/ \E d \in EngineDescriptors : GetCall("t1", d)
  \/ GetSteps("t1")
  \/ \E e \in engines, m \in IRModules : addModule("t1", e, m)

SpecEngine == InitEngine /\ [][NextEngine]_vars

\* ---- the unique-name allocator on two engines obtained from the cache with
\* the all-default descriptor and with an explicit arm triple
BuiltJD == RegisterDispatchParallel(RegisterNNC(RegisterStaticJD(EmptyMap)))

InitNames ==
  /\ engines = {1, 2}
  /\ nnc_registry = PlainRegistry
  /\ targets_initialized = TRUE
  /\ TM = <<createTargetMachine(makeTargetMachineBuilder(None, None, None)),
            createTargetMachine(makeTargetMachineBuilder(Some("arm"), Some("cpu:m1"), None))>>
  /\ JD = <<BuiltJD, BuiltJD>>
  /\ intrinsics = <<RegisterStaticNames({}), RegisterStaticNames({})>>
  /\ modules = <<<<>>, <<>>>>
  /\ jit_cache = [k \in {getCacheKey(None, None, None),
                         getCacheKey(Some("arm"), Some("cpu:m1"), None)} |->
                    IF k = getCacheKey(None, None, None) THEN 1 ELSE 2]
  /\ got = [d \in {Descriptor(None, None, None), Descriptor(Some("arm"), Some("cpu:m1"), None)} |->
              IF d = Descriptor(None, None, None) THEN 1 ELSE 2]
  /\ cache_mutex = NoThread
  /\ get_pc = [t \in Threads |-> "idle"]
  /\ get = [t \in Threads |-> GetIdle]
  /\ outcome = [t \in Threads |-> "returned"]
  /\ existing_functions = <<EmptyMap, EmptyMap>>
  /\ name_mutex = <<NoThread, NoThread>>
  /\ ufn_pc = [t \in Threads |-> "idle"]
  /\ ufn = [t \in Threads |-> UfnIdle]
  /\ returned = <<<<>>, <<>>>>
  /\ DeviceIdle
  /\ CallArgIdle

\* the state InitNames describes, as a predicate on the cache runs
NamesStartReached == InitNames

NextNames ==
  \/ \E t \in Threads, e \in engines, name \in BaseNames : UfnLock(t, e, name)
  \/ \E t \in Threads : UfnFind(t)
  \/ \E t \in Threads : UfnStoreFirst(t)
  \/ \E t \in Threads : UfnStoreNext(t)
  \/ \E t \in Threads : UfnBuild(t)
  \/ \E t \in Threads : UfnReturn(t)

SpecNames == InitNames /\ [][NextNames]_vars

\* ---- one getDeviceIndexWithPrimaryContext call on any machine of up to
\* MaxDevices devices: any outcome of cudaGetDevice, any primary-context state
InitDevice ==
  /\ InitProcess
  /\ nnc_registry = PlainRegistry
  /\ CallArgIdle
  /\ device_count \in 0 .. MaxDevices
  /\ cudaGetDevice \in CudaGetDeviceOutcomes(device_count)
  /\ primary_ctx \in [0 .. device_count - 1 -> CtxStates]
  /\ gdi_pc = "current_device"
  /\ gdi = GdiLocals
  /\ hpc_calls = <<>>
  /\ gdi_result = None

NextDevice ==
  \/ GdiCurrentDevice
  \/ GdiCheckCurrent
  \/ GdiLoopEnd
  \/ GdiLoopSkip
  \/ GdiLoopQuery

SpecDevice == InitDevice /\ [][NextDevice]_vars

\* ---- one CallArg built from a scalar and read back, on either build
InitCallArg ==
  /\ InitProcess
  /\ nnc_registry = PlainRegistry
  /\ DeviceIdle
  /\ pointer_size \in PointerSizes
  /\ memory \in {[i \in MemoryBytes |-> g] : g \in GarbageBytes}
  /\ arg_pc = "idle"
  /\ arg = NoArg
  /\ deref = <<>>

NextCallArg ==
  \/ \E Type \in ScalarTypes : \E v \in Values(Type) : CallArg(Type, v)
  \/ NamePtr

SpecCallArg == InitCallArg /\ [][NextCallArg]_vars

(***************************************************************************)
(* Properties of the unique-name allocator.                                *)
(***************************************************************************)
\* the calls of returned[e] before position i that asked for the same name
EarlierSame(e, i) == {j \in 1..(i - 1) : returned[e][j].name = returned[e][i].name}

\* the name the documentation promises for the k-th later call with base b
PromisedName(b, k) == IF k = 0 THEN b ELSE b \o "_" \o ToString(k)

\* the completed calls on engine e that asked for base b
CallsFor(e, b) == {i \in 1..Len(returned[e]) : returned[e][i].name = b}

\* C1: on one engine the first call with base b returns b and the k-th later
\* call with b returns b_k, whatever calls for other bases come in between.
C1_SequencePerBase ==
  \A e \in engines : \A i \in 1..Len(returned[e]) :
    returned[e][i].result = PromisedName(returned[e][i].name, Cardinality(EarlierSame(e, i)))

\* C2: threads calling concurrently with the same base on the same engine
\* receive as many distinct strings as calls were made, and at most one call
\* per engine is between its find and its return.
C2_ConcurrentDistinct ==
  /\ \A e \in engines : \A b \in BaseNames :
       Cardinality({returned[e][i].result : i \in CallsFor(e, b)}) = Cardinality(CallsFor(e, b))
  /\ \A e \in engines :
       Cardinality({t \in Threads : ufn_pc[t] # "idle" /\ ufn[t].engine = e}) <= 1

\* C2 witness: two threads have each completed two calls with one base on one engine
C2_Witness ==
  \E e \in engines : \E b \in BaseNames : \A t \in Threads :
    Cardinality({i \in CallsFor(e, b) : returned[e][i].thread = t}) >= 2

\* C3: on one engine no two calls, with any mix of base names, return the same string.
C3_AllNamesDistinct ==
  \A e \in engines : \A i, j \in 1..Len(returned[e]) :
    i # j => returned[e][i].result # returned[e][j].result

KeyOf(d) == getCacheKey(d.triple, d.cpu, d.attrs)

\* the field's string, or the empty string when the field is absent
OrEmpty(o) == IF o = None THEN "" ELSE o[2]

\* the documented encoding of a descriptor
DocumentedKey(d) ==
  "triple:" \o OrEmpty(d.triple) \o "cpu:" \o OrEmpty(d.cpu) \o "attrs:" \o OrEmpty(d.attrs)

\* C5: a cache entry, once present, is never removed or replaced; what a
\* descriptor was answered with never changes and is the cached engine of its
\* key; and every engine that exists is the cached engine of some key.
C5_OneEnginePerKey ==
  [][/\ \A k \in DOMAIN jit_cache : k \in DOMAIN jit_cache' /\ jit_cache'[k] = jit_cache[k]
     /\ \A d \in DOMAIN got : got'[d] = got[d]
     /\ \A d \in DOMAIN got' : KeyOf(d) \in DOMAIN jit_cache' /\ got'[d] = jit_cache'[KeyOf(d)]
     /\ engines' = {jit_cache'[k] : k \in DOMAIN jit_cache'}
     /\ \A k1, k2 \in DOMAIN jit_cache' : k1 # k2 => jit_cache'[k1] # jit_cache'[k2]]_vars

\* C5 witness: a call hits the entry an earlier call with the identical
\* descriptor created, while the other thread waits for the cache lock
C5_Witness ==
  \E t, u \in Threads :
    /\ get_pc[t] = "return" /\ get[t].hit
    /\ get[t].d \in DOMAIN got /\ got[get[t].d] = get[t].result
    /\ get_pc[u] = "lock"

\* C6: calls whose descriptors differ in any field return different engines.
C6_DifferentDescriptorsDifferentEngines ==
  \A d1, d2 \in DOMAIN got : d1 # d2 => got[d1] # got[d2]

\* C6 amended: calls whose descriptors have different documented keys return
\* different engines.
C6_DifferentKeysDifferentEngines ==
  \A d1, d2 \in DOMAIN got : DocumentedKey(d1) # DocumentedKey(d2) => got[d1] # got[d2]

\* C6 witness: two descriptors that differ only in attrs were both answered
C6_Witness ==
  /\ Descriptor(None, None, None) \in DOMAIN got
  /\ Descriptor(None, None, Some("+avx")) \in DOMAIN got

\* C7: the key a call computes is the documented concatenation, and two
\* descriptors that agree once absent fields are read as empty strings are
\* answered with the same engine.
C7_KeyEncoding ==
  /\ \A t \in Threads : get_pc[t] # "idle" => get[t].cacheKey = DocumentedKey(get[t].d)
  /\ \A d1, d2 \in DOMAIN got :
       (/\ OrEmpty(d1.triple) = OrEmpty(d2.triple)
        /\ OrEmpty(d1.cpu) = OrEmpty(d2.cpu)
        /\ OrEmpty(d1.attrs) = OrEmpty(d2.attrs)) => got[d1] = got[d2]

\* C7 witness: the all-absent descriptor and the one with an empty cpu string
\* were both answered
C7_Witness ==
  /\ Descriptor(None, None, None) \in DOMAIN got
  /\ Descriptor(None, Some(""), None) \in DOMAIN got

(***************************************************************************)
(* Properties of engine construction.                                      *)
(***************************************************************************)
\* names to ask an engine about
ProbeNames ==
  IntrinsicNames \cup DOMAIN nnc_registry
    \cup {"DispatchParallel", "kernel", "kernel_2", "malloc", "no_such_symbol"}

\* C8: on every constructed engine hasSymbol is true exactly for the names of
\* the static intrinsic list; registry names and DispatchParallel resolve in
\* the engine but hasSymbol denies them; modules added do not change this.
C8_HasSymbolIsStaticList ==
  \A e \in engines :
    /\ \A n \in ProbeNames : hasSymbol(e, n) <=> n \in IntrinsicNames
    /\ \A n \in (DOMAIN nnc_registry \cup {"DispatchParallel"}) \ IntrinsicNames :
         findSymbol(e, n).found /\ ~hasSymbol(e, n)
    /\ \A i \in 1..Len(modules[e]) : \A n \in DOMAIN modules[e][i] :
         findSymbol(e, n).found /\ ~hasSymbol(e, n)

\* C8 witness: an engine with a module added
C8_Witness == \E e \in engines : Len(modules[e]) >= 1 /\ "kernel" \in DOMAIN JD[e]

\* the names both the static list and the backend registry define
SharedNames == DOMAIN nnc_registry \cap IntrinsicNames

\* the constructor of thread t has run the registry loop of registerIntrinsics
RegistryLoopRun(t) == get_pc[t] \in {"reg_dp", "insert", "throw"} /\ get[t].jit.generator

StaticAddress(n) == (CHOOSE i \in 1..Len(IntrinsicSymbols) : IntrinsicSymbols[i].symbol = n)

ParsedFeatures(str) ==
  CASE str = "+neon,,-sve" -> <<"+neon", "-sve">>
    [] str = "+avx" -> <<"+avx">>
    [] str = "" -> <<>>

\* the constructor of thread t has resolved its target machine
TargetResolved(t) == get_pc[t] \in {"ctor_llj", "ctor_gen", "reg_static", "reg_nnc", "reg_dp", "insert"}

\* C10: each absent field is resolved to its host default independently of
\* the other fields.
C10_HostDefaultsPerField ==
  \A t \in Threads : TargetResolved(t) =>
    LET d == get[t].d  tm == get[t].jit.TM
    IN /\ tm.triple = (IF d.triple = None THEN HostTriple ELSE d.triple[2])
       /\ tm.cpu = (IF d.cpu = None THEN HostCPUName ELSE d.cpu[2])
       /\ tm.features = (IF d.attrs = None THEN HostFeatures ELSE ParsedFeatures(d.attrs[2]))

\* C10 amended: supplied fields are used as given (attrs parsed); an absent
\* triple becomes the host triple; an absent cpu or attrs becomes the host
\* default only when the triple is absent too, and is left unset (empty CPU
\* name, no features) when a triple is supplied.
C10_HostDefaultsOnlyWithoutTriple ==
  \A t \in Threads : TargetResolved(t) =>
    LET d == get[t].d  tm == get[t].jit.TM
    IN /\ tm.triple = (IF d.triple = None THEN HostTriple ELSE d.triple[2])
       /\ tm.cpu = (IF d.cpu # None THEN d.cpu[2]
                    ELSE IF d.triple = None THEN HostCPUName ELSE "")
       /\ tm.features = (IF d.attrs # None THEN ParsedFeatures(d.attrs[2])
                         ELSE IF d.triple = None THEN HostFeatures ELSE <<>>)

\* C10 witness: an engine is built for an explicit triple with cpu and attrs absent
C10_Witness ==
  \E t \in Threads :
    get_pc[t] = "insert" /\ get[t].d = Descriptor(Some("arm"), None, None)

(***************************************************************************)
(* Properties of the construction order, of addModule and of failures.     *)
(***************************************************************************)
\* the engines some caller or the cache can name
Observable == {jit_cache[k] : k \in DOMAIN jit_cache} \cup {got[d] : d \in DOMAIN got}
                \cup {get[t].result : t \in {u \in Threads : get_pc[u] = "return"}}

\* everything registerIntrinsics defines
RegisteredNames == IntrinsicNames \cup DOMAIN nnc_registry \cup {"DispatchParallel"}

\* C12: a constructor resolves the target machine, then creates the execution
\* context with an empty namespace, then installs the generator, then
\* registers the static list, the registry and DispatchParallel; the engine
\* under construction is not observable, and every observable engine (the
\* only ones addModule and findSymbol can be called on) has all of them.
C12_ReadyBeforeObservable ==
  /\ \A t \in Threads :
       LET j == get[t].jit  pc == get_pc[t]
       IN /\ pc = "ctor_llj" => j.TM # Failure /\ ~j.LLJ /\ ~j.generator /\ j.JD = EmptyMap
          /\ pc = "ctor_gen" => j.TM # Failure /\ j.LLJ /\ ~j.generator /\ j.JD = EmptyMap
          /\ pc = "reg_static" => j.LLJ /\ j.generator /\ j.JD = EmptyMap /\ j.intrinsics = {}
          /\ pc = "reg_nnc" => j.generator /\ DOMAIN j.JD = IntrinsicNames
          /\ pc = "reg_dp" => DOMAIN j.JD = IntrinsicNames \cup DOMAIN nnc_registry
          /\ pc = "insert" => j.TM # Failure /\ j.LLJ /\ j.generator
                              /\ DOMAIN j.JD = RegisteredNames
          /\ pc \in {"ctor_llj", "ctor_gen", "reg_static", "reg_nnc", "reg_dp", "insert", "throw"}
               => j.id \notin engines \cup Observable
  /\ Observable \subseteq engines
  /\ DOMAIN modules = engines
  /\ \A e \in engines :
       /\ TM[e] # Failure
       /\ \A n \in RegisteredNames : findSymbol(e, n).found
       /\ \A i \in 1..Len(IntrinsicSymbols) :
            findSymbol(e, IntrinsicSymbols[i].symbol).address = IntrinsicSymbols[i].address
       /\ \A n \in DOMAIN nnc_registry : findSymbol(e, n).address = nnc_registry[n]
       /\ findSymbol(e, "DispatchParallel").address = DispatchParallelAddr

\* C12 witness: one engine has taken a module while the constructor of the
\* next one is between the registry loop and DispatchParallel
C12_Witness ==
  /\ \E e \in engines : Len(modules[e]) >= 1
  /\ \E t \in Threads : get_pc[t] = "reg_dp"

\* C13: a step never removes an engine, never shortens or changes the modules
\* it holds, and every name it resolved is still resolved to the same address.
C13_AddModuleAppends ==
  [][\A e \in engines :
       /\ e \in engines'
       /\ Len(modules'[e]) >= Len(modules[e])
       /\ SubSeq(modules'[e], 1, Len(modules[e])) = modules[e]
       /\ \A n \in DOMAIN JD[e] \cup DOMAIN ProcessSymbols :
            (findSymbol(e, n))' = findSymbol(e, n)]_vars

\* C13 witness: an engine holds two modules
C13_Witness == \E e \in engines : Len(modules[e]) >= 2

\* C14: when construction fails the call ends with the error, the key of the
\* failed call has no entry, the cache and the engines are as before, and the
\* cache mutex is free again.
C14_FailureLeavesCacheUnchanged ==
  [][\A t \in Threads :
       get_pc[t] = "throw" =>
         /\ get[t].cacheKey \notin DOMAIN jit_cache
         /\ get[t].jit.id \notin engines
         /\ get_pc'[t] # "throw" =>
              /\ outcome'[t] = "threw"
              /\ jit_cache' = jit_cache
              /\ engines' = engines
              /\ cache_mutex' = NoThread]_vars

\* C14 witness: after one thread's call failed, the other thread's call with
\* the failing descriptor has taken the lock, missed, and constructs again
C14_Witness ==
  \E t, u \in Threads :
    /\ t # u
    /\ get_pc[t] = "idle" /\ outcome[t] = "threw"
    /\ get_pc[u] = "ctor_tm"
    /\ get[u].d = Descriptor(Some("armcpu:"), Some("m1"), None)

\* thread t is between its lookup and its return or throw
InCritical(t) ==
  get_pc[t] \in {"find", "init_targets", "ctor_tm", "ctor_llj", "ctor_gen",
                 "reg_static", "reg_nnc", "reg_dp", "insert", "return", "throw"}

\* C15: at most one call is between taking the cache mutex and releasing it,
\* that call holds the mutex, and so at most one construction is in progress.
C15_OneCriticalSection ==
  /\ Cardinality({t \in Threads : InCritical(t)}) <= 1
  /\ \A t \in Threads : InCritical(t) => cache_mutex = t
  /\ (\A t \in Threads : ~InCritical(t)) => cache_mutex = NoThread

\* C15 witness: one call registers symbols while another waits for the mutex
C15_Witness ==
  \E t, u \in Threads : get_pc[t] = "reg_nnc" /\ get_pc[u] = "lock"


(***************************************************************************)
(* Properties of CodeGen::CallArg.                                         *)
(***************************************************************************)
\* C11: for every scalar kind and every value v of it, a CallArg constructed
\* from v and read through that kind's accessor gives v unchanged.
C11_RoundTrip == arg_pc = "read" => deref = arg.v

\* the same for the kinds that fit the member: sizeof(Type) <= sizeof(void*)
CallArgRoundTripWithinCell ==
  (arg_pc = "read" /\ sizeof[arg.Type] <= pointer_size) => deref = arg.v

\* a wide scalar has been read back on a 32-bit build
CallArgWideRead ==
  arg_pc = "read" /\ sizeof[arg.Type] > pointer_size

(***************************************************************************)
(* Properties of getDeviceIndexWithPrimaryContext.                         *)
(***************************************************************************)
\* the devices other than the current one with an active primary context
ActiveOthers ==
  {d \in Devices : d # current_device /\ primary_ctx[d] = "active"}

Lowest(S) == CHOOSE x \in S : \A y \in S : x <= y

\* the documented result
DocumentedDevice ==
  IF current_device >= 0 /\ primary_ctx[current_device] = "active"
  THEN Some(current_device)
  ELSE IF ActiveOthers # {} THEN Some(Lowest(ActiveOthers))
  ELSE None

\* C16: a call that returns gives the current device when current_device()
\* is >= 0 and that device has an active primary context, otherwise the lowest
\* other device with an active primary context, otherwise no value; no device
\* is asked twice; every index passed to hasPrimaryContext is a valid one (so
\* never the -1 of a failed current_device(), and the range check never
\* fails); hasPrimaryContext rejects every index outside 0..device_count-1;
\* a call ends with an error only when the driver query of the device asked
\* last failed.
C16_DeviceWithPrimaryContext ==
  /\ gdi_pc = "done" => gdi_result = DocumentedDevice
  /\ \A i, j \in DOMAIN hpc_calls : i # j => hpc_calls[i] # hpc_calls[j]
  /\ \A i \in DOMAIN hpc_calls : hpc_calls[i] \in Devices
  /\ current_device = -1 => \A i \in DOMAIN hpc_calls : hpc_calls[i] # -1
  /\ \A x \in (-1 .. MaxDevices + 1) \ Devices : hasPrimaryContext(x) = "TORCH_CHECK"
  /\ gdi_pc = "threw" =>
       /\ hpc_calls # <<>>
       /\ primary_ctx[hpc_calls[Len(hpc_calls)]] = "driver_error"

\* the current device was asked first and had no active context, device 0 was
\* asked next, the current device was skipped and device 2 was returned
C16_Witness ==
  /\ gdi_pc = "done"
  /\ gdi.current_device_index = 1
  /\ hpc_calls = <<1, 0, 2>>
  /\ gdi_result = Some(2)

\* cudaGetDevice failed and the loop found the lowest device with a context
DeviceFoundWithoutCurrent ==
  /\ gdi_pc = "done"
  /\ gdi.current_device_index = -1
  /\ hpc_calls = <<0, 1>>
  /\ gdi_result = Some(1)

====
